---- MODULE Spec2Model ----
(***************************************************************************)
(* A model of git-automate (src/src/main.rs): one invocation of the CLI,   *)
(* from load_config to the exit code, with every git subprocess it         *)
(* launches recorded in order.  git itself and the disk are the            *)
(* environment: a subprocess exits zero, exits non-zero or cannot be       *)
(* launched at all.                                                        *)
(***************************************************************************)
EXTENDS Naturals, Sequences, FiniteSets, TLC

VARIABLES
    cli,            \* the parsed Cli: command, its parameters, dry_run
    file,           \* git-automate.toml on disk: <<>> (absent) or <<content>>
    file0,          \* git-automate.toml as it was when the invocation began
    inRepo,         \* whether the working directory is inside a work tree
    repo,           \* the repository: dirty, staged, head, branch, branches, pushed
    repo0,          \* the repository as it was when the invocation began
    pc,             \* position of main
    config,         \* GitOps.config (the loaded Config)
    log,            \* the git subprocesses launched so far, in order
    intents,        \* the "[DRY RUN] Would ..." statements logged so far
    commit_msg,     \* main's commit_msg: <<>> until line 316 ran
    genCalled,      \* whether generate_commit_message was called
    current_branch, \* main's current_branch: <<>> until the query returned
    exitCode,       \* process exit code: <<>> while running, else <<0>> or <<1>>
    err             \* the error main returned ("" when none)

vars == <<cli, file, file0, inRepo, repo, repo0, pc, config, log, intents,
          commit_msg, genCalled, current_branch, exitCode, err>>

-----------------------------------------------------------------------------
(* Bounds of the model *)

NumFiles == 2

-----------------------------------------------------------------------------
(* Input alphabets *)

FileNames == <<"a.txt", "b.txt", "c.txt", "d.txt">>

Files == {FileNames[i] : i \in 1..NumFiles}

BranchNames == {"main", "dev"}

\* phrases names::Generator can return
Names == {"brave-lion", "calm-river"}

\* explicit -m texts; one of them is a text the generator could also produce
Messages == {"fix typo", "feat: brave-lion"}

\* -f lists: one or two distinct paths
FileLists == {<<f>> : f \in Files}
             \cup {<<f, g>> : <<f, g>> \in {p \in Files \X Files : p[1] # p[2]}}

Range(s) == {s[i] : i \in 1..Len(s)}

-----------------------------------------------------------------------------
(* Config and its TOML form *)

DefaultConfig ==
    [default_remote |-> "origin", commit_template |-> "feat: {}", auto_pull |-> TRUE]

BoolText(b) == IF b THEN "true" ELSE "false"

\* toml::to_string_pretty(&config): one key = value line per field
ToToml(c) ==
    << [key |-> "default_remote",  type |-> "string",  text |-> c.default_remote],
       [key |-> "commit_template", type |-> "string",  text |-> c.commit_template],
       [key |-> "auto_pull",       type |-> "boolean", text |-> BoolText(c.auto_pull)] >>

HasField(content, k, t) ==
    \E i \in 1..Len(content) : content[i].key = k /\ content[i].type = t

FieldText(content, k) ==
    content[CHOOSE i \in 1..Len(content) : content[i].key = k].text

\* toml::from_str::<Config>: a syntax error, a duplicate key, a missing field
\* or a field of the wrong type is an error; unknown keys are ignored
ParseOk(content) ==
    /\ \A i \in 1..Len(content) : content[i].type \in {"string", "boolean"}
    /\ \A i, j \in 1..Len(content) : content[i].key = content[j].key => i = j
    /\ HasField(content, "default_remote", "string")
    /\ HasField(content, "commit_template", "string")
    /\ HasField(content, "auto_pull", "boolean")

FromToml(content) ==
    [default_remote  |-> FieldText(content, "default_remote"),
     commit_template |-> FieldText(content, "commit_template"),
     auto_pull       |-> (FieldText(content, "auto_pull") = "true")]

CustomConfig ==
    [default_remote |-> "upstream", commit_template |-> "fix: {}", auto_pull |-> FALSE]

\* the states of git-automate.toml an invocation can find
ConfigFiles ==
    { <<>>,
      <<ToToml(DefaultConfig)>>,
      <<ToToml(CustomConfig)>>,
      <<ToToml(CustomConfig) \o
          <<[key |-> "editor", type |-> "string", text |-> "vi"]>>>>,
      <<SubSeq(ToToml(DefaultConfig), 1, 2)>>,
      <<SubSeq(ToToml(DefaultConfig), 1, 2) \o
          <<[key |-> "auto_pull", type |-> "string", text |-> "yes"]>>>>,
      <<<<[key |-> "default_remote", type |-> "syntax error", text |-> "= ="]>>>> }

LoadConfigSwallowsErrors(f) ==
    IF f = <<>> \/ ~ParseOk(f[1]) THEN [ok |-> TRUE, config |-> DefaultConfig]
    ELSE [ok |-> TRUE, config |-> FromToml(f[1])]

\* load_config: the defaults when the file is absent, else the parsed file
LoadConfigResult(f) ==
    IF f = <<>> THEN [ok |-> TRUE, config |-> DefaultConfig]
    ELSE IF ParseOk(f[1]) THEN [ok |-> TRUE, config |-> FromToml(f[1])]
    ELSE [ok |-> FALSE, config |-> DefaultConfig]

-----------------------------------------------------------------------------
(* The command line *)

CommitCommands ==
    [command : {"commit"}, message : {<<>>} \cup {<<m>> : m \in Messages},
     files : {<<>>} \cup {<<l>> : l \in FileLists}, conventional : BOOLEAN,
     name : {""}, dry_run : BOOLEAN]

BranchCommands ==
    [command : {"create", "switch", "delete"}, message : {<<>>}, files : {<<>>},
     conventional : {FALSE}, name : BranchNames, dry_run : BOOLEAN]

OtherCommands ==
    [command : {"init", "status"}, message : {<<>>}, files : {<<>>},
     conventional : {FALSE}, name : {""}, dry_run : BOOLEAN]

Clis == CommitCommands \cup BranchCommands \cup OtherCommands

-----------------------------------------------------------------------------
(* The repository, as far as the git commands used here read or change it *)

Repos ==
    [dirty : SUBSET Files, staged : SUBSET Files, head : {0}, pushed : {0},
     branch : {"main"}, branches : {{"main"}, {"main", "dev"}}]

\* the three ways Command::output() can end
Statuses == {"ok", "fail", "nolaunch"}

\* git rev-parse --is-inside-work-tree
RepoCheckStatuses == {IF inRepo THEN "ok" ELSE "fail", "nolaunch"}

\* the paths a `git add` argument list matches
Matched(paths) == IF "." \in Range(paths) THEN Files ELSE Range(paths) \cap Files

AfterAdd(r, paths) ==
    [r EXCEPT !.staged = @ \cup (r.dirty \cap Matched(paths)),
              !.dirty = @ \ Matched(paths)]

\* stdout of git status --porcelain: one line per changed or untracked path
Porcelain(r) ==
    SelectSeq(SubSeq(FileNames, 1, NumFiles), LAMBDA f : f \in r.dirty \cup r.staged)

\* git commit exits zero only when something is staged
CommitStatuses == IF repo.staged = {} THEN {"fail", "nolaunch"} ELSE Statuses

CreateStatuses == IF cli.name \in repo.branches THEN {"fail", "nolaunch"} ELSE Statuses

SwitchStatuses == IF cli.name \notin repo.branches THEN {"fail", "nolaunch"} ELSE Statuses

DeleteStatuses ==
    IF cli.name \notin repo.branches \/ cli.name = repo.branch
    THEN {"fail", "nolaunch"} ELSE Statuses

\* stdout of git rev-parse --abbrev-ref HEAD, as tokens
BranchStdouts(st) ==
    IF st = "ok" THEN {<<repo.branch, "\n">>} ELSE {<<>>, <<"HEAD", "\n">>}

IsSpace(t) == t \in {" ", "\n", "\t"}

RECURSIVE TrimStart(_)
TrimStart(s) == IF s # <<>> /\ IsSpace(Head(s)) THEN TrimStart(Tail(s)) ELSE s

RECURSIVE TrimEnd(_)
TrimEnd(s) ==
    IF s # <<>> /\ IsSpace(s[Len(s)]) THEN TrimEnd(SubSeq(s, 1, Len(s) - 1)) ELSE s

RECURSIVE Join(_)
Join(s) == IF s = <<>> THEN "" ELSE Head(s) \o Join(Tail(s))

\* String::from_utf8_lossy(&output.stdout).trim().to_string()
Trim(s) == Join(TrimEnd(TrimStart(s)))

-----------------------------------------------------------------------------
(* Steps shared by the actions *)

Launch(argv, st) == log' = Append(log, [argv |-> argv, status |-> st])

Intend(text) == intents' = Append(intents, text)

\* main returns Err(msg): the process exits with code 1
Fail(msg) == pc' = "done" /\ exitCode' = <<1>> /\ err' = msg

\* main returns Ok(()): the process exits with code 0
Finish == pc' = "done" /\ exitCode' = <<0>> /\ err' = err

Goto(p) == pc' = p /\ exitCode' = exitCode /\ err' = err

env == <<cli, file0, inRepo, repo0>>

Init ==
    /\ cli \in Clis
    /\ file \in ConfigFiles
    /\ file0 = file
    /\ inRepo \in BOOLEAN
    /\ repo \in Repos
    /\ inRepo = FALSE => repo.dirty = {} /\ repo.staged = {} /\ repo.branches = {"main"}
    /\ repo0 = repo
    /\ pc = "load"
    /\ config = DefaultConfig
    /\ log = <<>>
    /\ intents = <<>>
    /\ commit_msg = <<>>
    /\ genCalled = FALSE
    /\ current_branch = <<>>
    /\ exitCode = <<>>
    /\ err = ""

-----------------------------------------------------------------------------
(* main, line 292: let config = load_config()?; GitOps::new(config, dry_run) *)

LoadConfig ==
    /\ pc = "load"
    /\ LET r == LoadConfigResult(file) IN
         IF r.ok
         THEN config' = r.config /\ Goto("check")
         ELSE config' = config /\ Fail("Failed to parse config file")
    /\ UNCHANGED <<env, file, repo, log, intents, commit_msg, genCalled, current_branch>>

CheckSuccessUnwrapTrue(st) == st # "fail"

CheckSuccessAlways(st) == TRUE

\* check_git_repo: .map(|output| output.status.success()).unwrap_or(false)
CheckSuccess(st) == st = "ok"

\* where main goes once the repository check has passed
AfterCheck(c, cfg) ==
    CASE c.command = "commit" -> IF cfg.auto_pull THEN "pull" ELSE "add"
      [] OTHER -> c.command

\* main, lines 295-300
CheckGitRepo ==
    /\ pc = "check"
    /\ \E st \in RepoCheckStatuses :
         /\ Launch(<<"rev-parse", "--is-inside-work-tree">>, st)
         /\ IF CheckSuccess(st)
            THEN Goto(AfterCheck(cli, config))
            ELSE Fail("Not in a git repository")
    /\ UNCHANGED <<env, file, repo, config, intents, commit_msg, genCalled, current_branch>>

-----------------------------------------------------------------------------
(* Commands::Commit *)

PullIgnoresDryRun ==
    /\ pc = "pull"
    /\ \E st \in Statuses :
         /\ Launch(<<"pull">>, st)
         /\ CASE st = "ok" ->
                   /\ \E n \in {0, 1} : repo' = [repo EXCEPT !.head = @ + n]
                   /\ Goto("add")
              [] st = "fail" -> repo' = repo /\ Fail("Pull failed")
              [] OTHER -> repo' = repo /\ Fail("Failed to pull changes")
    /\ intents' = intents
    /\ UNCHANGED <<env, file, config, commit_msg, genCalled, current_branch>>

\* GitOps::pull
Pull ==
    /\ pc = "pull"
    /\ IF cli.dry_run
       THEN /\ Intend("Would pull changes")
            /\ Goto("add")
            /\ UNCHANGED <<repo, log>>
       ELSE /\ \E st \in Statuses :
                 /\ Launch(<<"pull">>, st)
                 /\ CASE st = "ok" ->
                           /\ \E n \in {0, 1} : repo' = [repo EXCEPT !.head = @ + n]
                           /\ Goto("add")
                      [] st = "fail" -> repo' = repo /\ Fail("Pull failed")
                      [] OTHER -> repo' = repo /\ Fail("Failed to pull changes")
            /\ intents' = intents
    /\ UNCHANGED <<env, file, config, commit_msg, genCalled, current_branch>>

\* main, line 302: files.clone().unwrap_or_else(|| vec![String::from(".")])
AddPaths(c) == IF c.files = <<>> THEN <<".">> ELSE c.files[1]

\* GitOps::add_files
AddFiles ==
    /\ pc = "add"
    /\ IF cli.dry_run
       THEN /\ Intend("Would add files")
            /\ Goto("changes")
            /\ UNCHANGED <<repo, log>>
       ELSE /\ \E st \in Statuses :
                 /\ Launch(<<"add">> \o AddPaths(cli), st)
                 /\ CASE st = "ok" ->
                           repo' = AfterAdd(repo, AddPaths(cli)) /\ Goto("changes")
                      [] st = "fail" -> repo' = repo /\ Fail("Add failed")
                      [] OTHER -> repo' = repo /\ Fail("Failed to add files")
            /\ intents' = intents
    /\ UNCHANGED <<env, file, config, commit_msg, genCalled, current_branch>>

\* GitOps::has_changes, Ok(!output.stdout.is_empty()); the exit status is not read
HasChangesValue(st, r) == (IF st = "ok" THEN Porcelain(r) ELSE <<>>) # <<>>

\* main, lines 311-314
HasChanges ==
    /\ pc = "changes"
    /\ \E st \in Statuses :
         /\ Launch(<<"status", "--porcelain">>, st)
         /\ IF st = "nolaunch" THEN Fail("Failed to check git status")
            ELSE IF HasChangesValue(st, repo) THEN Goto("message")
            ELSE Finish
    /\ UNCHANGED <<env, file, repo, config, intents, commit_msg, genCalled, current_branch>>

\* generate_commit_message: the template is not used
generate_commit_message(template, conventional, name) ==
    IF conventional THEN "feat: " \o name ELSE name

UseExplicitNever(message) == FALSE

\* message.clone().unwrap_or_else(..): the explicit text when there is one
UseExplicit(message) == message # <<>>

\* main, lines 316-317
Message ==
    /\ pc = "message"
    /\ IF UseExplicit(cli.message)
       THEN commit_msg' = <<cli.message[1]>> /\ genCalled' = genCalled
       ELSE /\ \E name \in Names :
                 commit_msg' = <<generate_commit_message(config.commit_template,
                                                         cli.conventional, name)>>
            /\ genCalled' = TRUE
    /\ Goto("commit")
    /\ UNCHANGED <<env, file, repo, config, log, intents, current_branch>>

\* GitOps::commit
Commit ==
    /\ pc = "commit"
    /\ IF cli.dry_run
       THEN /\ Intend("Would commit with message")
            /\ Goto("branch")
            /\ UNCHANGED <<repo, log>>
       ELSE /\ \E st \in CommitStatuses :
                 /\ Launch(<<"commit", "-m", commit_msg[1]>>, st)
                 /\ CASE st = "ok" ->
                           /\ repo' = [repo EXCEPT !.staged = {}, !.head = @ + 1]
                           /\ Goto("branch")
                      [] st = "fail" -> repo' = repo /\ Fail("Commit failed")
                      [] OTHER -> repo' = repo /\ Fail("Failed to commit")
            /\ intents' = intents
    /\ UNCHANGED <<env, file, config, commit_msg, genCalled, current_branch>>

\* GitOps::get_current_branch: only a launch failure is an error; the exit
\* status is not read and the trimmed stdout is the branch name
GetCurrentBranch(from, to) ==
    /\ pc = from
    /\ \E st \in Statuses :
         /\ Launch(<<"rev-parse", "--abbrev-ref", "HEAD">>, st)
         /\ IF st = "nolaunch"
            THEN current_branch' = current_branch /\ Fail("Failed to get current branch")
            ELSE /\ \E out \in BranchStdouts(st) : current_branch' = <<Trim(out)>>
                 /\ Goto(to)
    /\ UNCHANGED <<env, file, repo, config, intents, commit_msg, genCalled>>

\* main, line 321
CommitBranch == GetCurrentBranch("branch", "push")

PushArgsOrigin(cfg, branch) == <<"push", "origin", branch>>

\* .args(["push", &self.config.default_remote, branch])
PushArgs(cfg, branch) == <<"push", cfg.default_remote, branch>>

\* GitOps::push, then main, lines 324 and 348
Push ==
    /\ pc = "push"
    /\ IF cli.dry_run
       THEN /\ Intend("Would push")
            /\ Finish
            /\ UNCHANGED <<repo, log>>
       ELSE /\ \E st \in Statuses :
                 /\ Launch(PushArgs(config, current_branch[1]), st)
                 /\ CASE st = "ok" ->
                           repo' = [repo EXCEPT !.pushed = repo.head] /\ Finish
                      [] st = "fail" -> repo' = repo /\ Fail("Push failed")
                      [] OTHER -> repo' = repo /\ Fail("Failed to push")
            /\ intents' = intents
    /\ UNCHANGED <<env, file, config, commit_msg, genCalled, current_branch>>

-----------------------------------------------------------------------------
(* Commands::Branch *)

\* GitOps::create_branch, git checkout -b name
CreateBranch ==
    /\ pc = "create"
    /\ IF cli.dry_run
       THEN /\ Intend("Would create branch")
            /\ Finish
            /\ UNCHANGED <<repo, log>>
       ELSE /\ \E st \in CreateStatuses :
                 /\ Launch(<<"checkout", "-b", cli.name>>, st)
                 /\ CASE st = "ok" ->
                           /\ repo' = [repo EXCEPT !.branches = @ \cup {cli.name},
                                                   !.branch = cli.name]
                           /\ Finish
                      [] st = "fail" -> repo' = repo /\ Fail("Branch creation failed")
                      [] OTHER -> repo' = repo /\ Fail("Failed to create branch")
            /\ intents' = intents
    /\ UNCHANGED <<env, file, config, commit_msg, genCalled, current_branch>>

\* GitOps::switch_branch, git checkout name
SwitchBranch ==
    /\ pc = "switch"
    /\ IF cli.dry_run
       THEN /\ Intend("Would switch to branch")
            /\ Finish
            /\ UNCHANGED <<repo, log>>
       ELSE /\ \E st \in SwitchStatuses :
                 /\ Launch(<<"checkout", cli.name>>, st)
                 /\ CASE st = "ok" -> repo' = [repo EXCEPT !.branch = cli.name] /\ Finish
                      [] st = "fail" -> repo' = repo /\ Fail("Branch switch failed")
                      [] OTHER -> repo' = repo /\ Fail("Failed to switch branch")
            /\ intents' = intents
    /\ UNCHANGED <<env, file, config, commit_msg, genCalled, current_branch>>

\* GitOps::delete_branch, git branch -d name
DeleteBranch ==
    /\ pc = "delete"
    /\ IF cli.dry_run
       THEN /\ Intend("Would delete branch")
            /\ Finish
            /\ UNCHANGED <<repo, log>>
       ELSE /\ \E st \in DeleteStatuses :
                 /\ Launch(<<"branch", "-d", cli.name>>, st)
                 /\ CASE st = "ok" ->
                           repo' = [repo EXCEPT !.branches = @ \ {cli.name}] /\ Finish
                      [] st = "fail" -> repo' = repo /\ Fail("Branch deletion failed")
                      [] OTHER -> repo' = repo /\ Fail("Failed to delete branch")
            /\ intents' = intents
    /\ UNCHANGED <<env, file, config, commit_msg, genCalled, current_branch>>

-----------------------------------------------------------------------------
(* Commands::Init: dry_run is not consulted *)

InitConfig ==
    /\ pc = "init"
    /\ file' = <<ToToml(DefaultConfig)>>
    /\ Finish
    /\ UNCHANGED <<env, repo, config, log, intents, commit_msg, genCalled, current_branch>>

-----------------------------------------------------------------------------
(* Commands::Status *)

\* main, line 340
StatusBranch == GetCurrentBranch("status", "status_changes")

\* main, lines 341-348
StatusChanges ==
    /\ pc = "status_changes"
    /\ \E st \in Statuses :
         /\ Launch(<<"status", "--porcelain">>, st)
         /\ IF st = "nolaunch" THEN Fail("Failed to check git status") ELSE Finish
    /\ UNCHANGED <<env, file, repo, config, intents, commit_msg, genCalled, current_branch>>

-----------------------------------------------------------------------------

Next ==
    \/ LoadConfig
    \/ CheckGitRepo
    \/ Pull
    \/ AddFiles
    \/ HasChanges
    \/ Message
    \/ Commit
    \/ CommitBranch
    \/ Push
    \/ CreateBranch
    \/ SwitchBranch
    \/ DeleteBranch
    \/ InitConfig
    \/ StatusBranch
    \/ StatusChanges

Spec == Init /\ [][Next]_vars

-----------------------------------------------------------------------------
(* Words used by the properties *)

Done == pc = "done"

Launched(kind) == \E i \in 1..Len(log) : log[i].argv[1] = kind

\* the verb and first flag of each launched subprocess, in order
Kinds == [i \in 1..Len(log) |->
            IF log[i].argv[1] = "rev-parse" THEN log[i].argv[2]
            ELSE IF log[i].argv[1] = "checkout" /\ log[i].argv[2] = "-b" THEN "checkout -b"
            ELSE log[i].argv[1]]

ReadOnlyKinds == {"--is-inside-work-tree", "--abbrev-ref", "status"}

MutatingKinds == {"pull", "add", "commit", "push", "checkout -b", "checkout", "branch"}

Malformed(f) == f # <<>> /\ ~ParseOk(f[1])

TypeOK ==
    /\ cli \in Clis
    /\ file \in ConfigFiles
    /\ pc \in {"load", "check", "pull", "add", "changes", "message", "commit",
               "branch", "push", "create", "switch", "delete", "init", "status",
               "status_changes", "done"}
    /\ exitCode \in {<<>>, <<0>>, <<1>>}
    /\ (pc = "done") = (exitCode # <<>>)

-----------------------------------------------------------------------------
(* What the invocation was asked to do, read off the inputs *)

RepoCheckArgv == <<"rev-parse", "--is-inside-work-tree">>

ConfiguredAutoPull ==
    IF file0 = <<>> THEN TRUE ELSE FieldText(file0[1], "auto_pull") = "true"

ConfiguredRemote ==
    IF file0 = <<>> THEN "origin" ELSE FieldText(file0[1], "default_remote")

RequestedPaths == IF cli.files = <<>> THEN <<".">> ELSE cli.files[1]

Argvs == [i \in 1..Len(log) |-> log[i].argv]

CommitRun == cli.command = "commit" /\ ~cli.dry_run

\* C1: a non-dry-run commit that exits 0 with changes present launched exactly
\* repository check, pull (iff auto_pull), add with the requested paths (or "."),
\* change check, commit with the chosen message, current-branch query and
\* push (configured remote, branch returned by the query), in this order, each once.
C1_CommitSequence ==
    (CommitRun /\ Done /\ exitCode = <<0>> /\ commit_msg # <<>>) =>
        /\ Argvs = <<RepoCheckArgv>>
                   \o (IF ConfiguredAutoPull THEN <<<<"pull">>>> ELSE <<>>)
                   \o << <<"add">> \o RequestedPaths,
                         <<"status", "--porcelain">>,
                         <<"commit", "-m", commit_msg[1]>>,
                         <<"rev-parse", "--abbrev-ref", "HEAD">>,
                         <<"push", ConfiguredRemote, current_branch[1]>> >>
        /\ log[Len(log) - 1].status = "ok" => current_branch = <<repo0.branch>>

C1_Witness ==
    /\ CommitRun /\ Done /\ exitCode = <<0>> /\ commit_msg # <<>>
    /\ ConfiguredRemote = "upstream"
    /\ cli.files # <<>>
    /\ Len(log) = 6

\* C3: with dry_run set no mutating git subprocess (pull, add, commit, push,
\* checkout -b, checkout, branch -d) is launched and each such step reports
\* success, while the repository check, the change check and the
\* current-branch query on the path are launched as real subprocesses.
C3_DryRun ==
    cli.dry_run =>
        /\ \A i \in 1..Len(log) : Kinds[i] \in ReadOnlyKinds
        /\ err \in {"", "Failed to parse config file", "Not in a git repository",
                    "Failed to check git status", "Failed to get current branch"}
        /\ pc \in {"pull", "add", "changes", "create", "switch", "delete", "init",
                   "status"} => Kinds = <<"--is-inside-work-tree">>
        /\ pc \in {"message", "commit", "branch"} =>
               Kinds = <<"--is-inside-work-tree", "status">>
        /\ pc = "push" => Kinds = <<"--is-inside-work-tree", "status", "--abbrev-ref">>
        /\ pc = "status_changes" => Kinds = <<"--is-inside-work-tree", "--abbrev-ref">>
        /\ pc = "push" =>
               intents = (IF ConfiguredAutoPull THEN <<"Would pull changes">> ELSE <<>>)
                         \o <<"Would add files", "Would commit with message">>
        /\ (Done /\ cli.command \in {"create", "switch", "delete"}
                 /\ log # <<>> /\ log[1].status = "ok") =>
               exitCode = <<0>> /\ Len(intents) = 1 /\ Len(log) = 1

C3_Witness ==
    /\ cli.dry_run /\ cli.command = "commit" /\ Done /\ exitCode = <<0>>
    /\ Len(intents) = 4
    /\ Kinds = <<"--is-inside-work-tree", "status", "--abbrev-ref">>

\* C4: outside a repository (the repository check exits non-zero or git cannot
\* be launched) the invocation ends with a fatal error and a non-zero exit
\* code, and no git subprocess other than the one repository check is launched.
C4_OutsideRepo ==
    (~inRepo \/ (log # <<>> /\ log[1].status # "ok")) =>
        /\ Len(log) <= 1
        /\ \A i \in 1..Len(log) : log[i].argv = RepoCheckArgv
        /\ pc \in {"load", "check", "done"}
        /\ Done => exitCode = <<1>> /\ err # ""

C4_Witness ==
    /\ Done /\ ~inRepo /\ cli.command = "commit"
    /\ Len(log) = 1 /\ log[1].status = "fail"
    /\ exitCode = <<1>>

\* C6: a commit with an explicit message m passes exactly m to the commit
\* step, whatever the conventional flag and the configured template; the
\* generator is never used.
C6_ExplicitMessage ==
    (cli.command = "commit" /\ cli.message # <<>>) =>
        /\ ~genCalled
        /\ commit_msg # <<>> => commit_msg = cli.message
        /\ pc \in {"commit", "branch", "push"} => commit_msg = cli.message
        /\ \A i \in 1..Len(log) :
               log[i].argv[1] = "commit" => log[i].argv = <<"commit", "-m", cli.message[1]>>

C6_Witness ==
    /\ cli.command = "commit" /\ cli.message = <<"fix typo">> /\ cli.conventional
    /\ config.commit_template = "fix: {}"
    /\ Launched("commit")

\* C7: with git-automate.toml present but malformed every invocation ends with
\* a fatal error and a non-zero exit code before any git subprocess, the
\* repository check included, is launched; with the file absent load_config
\* returns the full default record without error.
C7_ConfigLoad ==
    /\ Malformed(file0) =>
           /\ log = <<>>
           /\ pc \in {"load", "done"}
           /\ Done => exitCode = <<1>> /\ err = "Failed to parse config file"
    /\ (file0 = <<>> /\ pc # "load") =>
           /\ config = [default_remote |-> "origin", commit_template |-> "feat: {}",
                        auto_pull |-> TRUE]
           /\ err # "Failed to parse config file"
           /\ log # <<>> \/ pc = "check"

C7_Witness ==
    /\ Malformed(file0) /\ Done /\ cli.command = "init" /\ inRepo
    /\ exitCode = <<1>> /\ log = <<>>

\* C9 (as stated): outside a repository the outcome is the fatal "not a
\* repository" error for every state of git-automate.toml (absent, valid,
\* malformed), the repository check coming before the file is read.
C9_NotRepoBeforeConfig ==
    (Done /\ ~inRepo) =>
        /\ err = "Not in a git repository"
        /\ Argvs = <<RepoCheckArgv>>

\* C9 (amended): outside a repository, with git-automate.toml absent or valid,
\* the outcome is the fatal "not a repository" error whatever the configured
\* values, after the one repository check; the file is read before the check,
\* so with a malformed file the outcome is the parse error and no repository
\* check is launched.
C9_NotRepoAfterConfig ==
    /\ (Done /\ ~inRepo /\ ~Malformed(file0)) =>
           /\ err = "Not in a git repository"
           /\ exitCode = <<1>>
           /\ Argvs = <<RepoCheckArgv>>
    /\ (Done /\ ~inRepo /\ Malformed(file0)) =>
           /\ err = "Failed to parse config file"
           /\ exitCode = <<1>>
           /\ log = <<>>
    /\ (~inRepo /\ log # <<>>) => pc = "done"

C9_Witness ==
    /\ Done /\ ~inRepo
    /\ file0 = <<ToToml(CustomConfig)>>
    /\ err = "Not in a git repository"
    /\ Len(log) = 1

AddStepDone ==
    \/ cli.dry_run /\ "Would add files" \in Range(intents)
    \/ \E i \in 1..Len(log) : log[i].argv[1] = "add" /\ log[i].status = "ok"

NothingStaged ==
    /\ repo.staged = {}
    /\ \A i \in 1..Len(log) : log[i].argv[1] = "commit" => log[i].status # "ok"

\* C2: a commit invocation in which nothing is staged after the add step
\* (also when a file list was given and only files outside it are modified or
\* untracked) exits with code 0 and launches neither commit nor push.
C2_NothingStagedNoCommit ==
    (cli.command = "commit" /\ AddStepDone /\ NothingStaged) =>
        /\ ~Launched("commit")
        /\ ~Launched("push")
        /\ (Done /\ \A i \in 1..Len(log) : log[i].status # "nolaunch") =>
               exitCode = <<0>>

\* C5: an init invocation inside a repository, whatever git-automate.toml was
\* (absent, valid, malformed), leaves a file from which load_config returns
\* exactly (origin, "feat: {}", true).
C5_InitWritesDefaults ==
    (Done /\ cli.command = "init" /\ inRepo
          /\ \A i \in 1..Len(log) : log[i].status = "ok") =>
        /\ file # <<>>
        /\ ParseOk(file[1])
        /\ FromToml(file[1]) = [default_remote |-> "origin",
                                commit_template |-> "feat: {}", auto_pull |-> TRUE]

\* C8: in a non-dry-run commit, a pull, add, commit, current-branch query or
\* push that exits non-zero ends the invocation with a non-zero exit code and
\* is the last subprocess launched.
C8_FailureAborts ==
    CommitRun =>
        \A i \in 1..Len(log) :
            (log[i].status = "fail"
               /\ Kinds[i] \in {"pull", "add", "commit", "--abbrev-ref", "push"}) =>
                /\ i = Len(log)
                /\ pc = "done"
                /\ exitCode = <<1>>

\* C10: with dry_run set, whatever the action, git-automate.toml on disk and
\* the repository are after the invocation what they were before it.
C10_DryRunFrame ==
    cli.dry_run => file = file0 /\ repo = repo0

====
